---- MODULE Spec2Model ----
(***************************************************************************)
(* The unrolled, reference-counted, copy-on-write list of src/unrolled.rs, *)
(* as a state machine over an explicit heap of cells (UnrolledCell) and    *)
(* element vectors (Vec<T>).  Each action is one public operation applied  *)
(* to one of the handles held by the program.                              *)
(*                                                                         *)
(* usize values that the code can drive below zero (index, count, len) are *)
(* kept as integers whose negative values stand for the wrapped value      *)
(* 2^64 + x; they are compared with ULt (the unsigned order).  Whether an  *)
(* underflow panics or wraps is the build's overflow_checks setting.       *)
(***************************************************************************)
EXTENDS Integers, Sequences, FiniteSets, TLC

\* Bucket capacity N of the list type VList.
VListN == 2
\* Bucket capacities explored when a list is built from a vector: 1..MaxN.
MaxN == 3
\* Length of the vector a list is built from: 0..MaxVec.
MaxVec == 7
\* Growth factors G explored: 1..MaxG.
MaxG == 2
\* Element values are handed out fresh, 1..MaxVal (the code never inspects T).
MaxVal == 4
\* Length of the initial vector: 0..MaxInit.
MaxInit == 2
\* Length of the vector given to extend: 0..MaxExt.
MaxExt == 2
\* Largest count given to take / tail and index given to get.
MaxArg == 2
\* Wrapped usize values are followed down to 2^64 - MaxWrap.
MaxWrap == 1
\* Appending one handle's list to another's is explored up to this length.
MaxLen == 4
\* Operations applied while the second handle c is in use.
MaxOps == 3

Handles == {"l", "c"}

VARIABLES
    cells,            \* heap: cell id -> [index, elements, next, size]
    vecs,             \* heap: vector id -> sequence of elements
    ext,              \* cell id -> number of handles (not next links) on it
    hd,               \* handle -> cell id, 0 when the handle is not live
    ref,              \* handle -> the reference vector of the property tests
    ret,              \* what the last operation was and what it returned
    nextVal,          \* next fresh element value
    ops,              \* operations applied so far with the handle c in use
    G,                \* growth factor of the list type
    N,                \* bucket capacity of the list type
    overflow_checks,  \* TRUE: arithmetic overflow panics; FALSE: it wraps
    steps             \* what is left of the operation a thread is in the middle of

vars ==
    <<cells, vecs, ext, hd, ref, ret, nextVal, ops, G, N, overflow_checks, steps>>

NoneV == 0

----------------------------------------------------------------------------
\* Sequences and usize arithmetic

Rev(s) == [i \in 1..Len(s) |-> s[Len(s) + 1 - i]]

Min(a, b) == IF a < b THEN a ELSE b

\* a < b on usize (negative representatives are the wrapped, huge values).
ULt(a, b) == IF (a < 0) = (b < 0) THEN a < b ELSE b < 0

UMin(a, b) == IF ULt(a, b) THEN a ELSE b

\* Vec::truncate(len): no effect when len is not below the current length.
truncate(s, n) == IF ULt(n, Len(s)) THEN SubSeq(s, 1, n) ELSE s

----------------------------------------------------------------------------
\* The heap and the pointer discipline P

FreshId(f) ==
    CHOOSE i \in 1..(Cardinality(DOMAIN f) + 1) :
        i \notin DOMAIN f /\ \A j \in 1..(i - 1) : j \in DOMAIN f

Remove(f, k) == [x \in (DOMAIN f) \ {k} |-> f[x]]

Heap == [cells |-> cells, vecs |-> vecs, ext |-> ext]

VecOf(H, id) == H.vecs[H.cells[id].elements]

SetVec(H, id, s) == [H EXCEPT !.vecs[H.cells[id].elements] = s]

\* P::strong_count of a cell: handles on it plus next links to it.
strong_count(H, id) ==
    H.ext[id] + Cardinality({c \in DOMAIN H.cells : H.cells[c].next = id})

\* P::strong_count of the elements vector of cell id.
elements_strong_count(H, id) ==
    Cardinality({c \in DOMAIN H.cells :
                    H.cells[c].elements = H.cells[id].elements})

\* P::clone of a handle on cell id.
P_clone(H, id) == IF id = 0 THEN H ELSE [H EXCEPT !.ext[id] = @ + 1]

\* The destructor freeing the cell it is given and not walking on to the
\* cells behind it.
Release_one(H, id) ==
    IF id = 0 \/ id \notin DOMAIN H.cells THEN H
    ELSE IF strong_count(H, id) > 0 THEN H
    ELSE LET c == H.cells[id]
             cells1 == Remove(H.cells, id)
             vecs1 == IF \E k \in DOMAIN cells1 : cells1[k].elements = c.elements
                      THEN H.vecs ELSE Remove(H.vecs, c.elements)
         IN [cells |-> cells1, vecs |-> vecs1, ext |-> Remove(H.ext, id)]

\* The destructor: a cell nobody holds is freed, its vector with it when no
\* other cell holds the vector, and the walk goes on to its next cell; it
\* stops at the first cell that is still held.
RECURSIVE Release(_, _)
Release(H, id) ==
    IF id = 0 \/ id \notin DOMAIN H.cells THEN H
    ELSE IF strong_count(H, id) > 0 THEN H
    ELSE LET c == H.cells[id]
             cells1 == Remove(H.cells, id)
             vecs1 == IF \E k \in DOMAIN cells1 : cells1[k].elements = c.elements
                      THEN H.vecs ELSE Remove(H.vecs, c.elements)
         IN Release([cells |-> cells1, vecs |-> vecs1, ext |-> Remove(H.ext, id)],
                    c.next)

\* Dropping a handle on cell id.
P_drop(H, id) ==
    IF id = 0 THEN H ELSE Release([H EXCEPT !.ext[id] = @ - 1], id)

\* P::new(vec): the id is NewVecId(H).
NewVecId(H) == FreshId(H.vecs)
P_new_vec(H, s) == [H EXCEPT !.vecs = (FreshId(H.vecs) :> s) @@ H.vecs]

\* P::new(UnrolledCell {..}) held by one handle: the id is NewCellId(H).  A
\* next given to the cell is moved into it from a handle.
NewCellId(H) == FreshId(H.cells)
P_new_cell(H, index, elements, next, size) ==
    LET id == FreshId(H.cells)
        c == [index |-> index, elements |-> elements, next |-> next, size |-> size]
        ext1 == IF next = 0 THEN H.ext ELSE [H.ext EXCEPT ![next] = @ - 1]
    IN [H EXCEPT !.cells = (id :> c) @@ H.cells, !.ext = (id :> 1) @@ ext1]

\* P::make_mut on a handle to cell id: the cell itself when the handle is the
\* only reference, otherwise a fresh copy of the cell (sharing the elements
\* vector and the next cell) that the handle is moved to.
MutId(H, id) == IF strong_count(H, id) = 1 THEN id ELSE FreshId(H.cells)
make_mut(H, id) ==
    IF strong_count(H, id) = 1 THEN H
    ELSE [H EXCEPT !.cells = (FreshId(H.cells) :> H.cells[id]) @@ H.cells,
                   !.ext = (FreshId(H.cells) :> 1) @@ [H.ext EXCEPT ![id] = @ - 1]]

\* P::make_mut on the elements pointer of cell id: the vector is copied when
\* another cell shares it.
make_mut_elements(H, id) ==
    IF elements_strong_count(H, id) = 1 THEN H
    ELSE [H EXCEPT !.vecs = (FreshId(H.vecs) :> VecOf(H, id)) @@ H.vecs,
                   !.cells[id].elements = FreshId(H.vecs)]

\* cell.next = next, where next (0 for None) is moved in from a handle; the
\* link that was there is dropped.
SetNext(H, id, next) ==
    LET old == H.cells[id].next
        H1 == [H EXCEPT !.cells[id].next = next]
        H2 == IF next = 0 THEN H1 ELSE [H1 EXCEPT !.ext[next] = @ - 1]
    IN Release(H2, old)

SetIndex(H, id, i) == [H EXCEPT !.cells[id].index = i]

----------------------------------------------------------------------------
\* Results of operations

Res(H, id, val, panic) == [H |-> H, id |-> id, val |-> val, panic |-> panic]

GROWTH_RATE == IF G = 0 THEN 1 ELSE G

\* UnrolledList::new
new(H) == P_new_cell(P_new_vec(H, <<>>), 0, NewVecId(H), 0, N)

----------------------------------------------------------------------------
\* Construction from a vector

\* ExponentialChunks::new growing once more when the sizes add up to exactly
\* the length.
RECURSIVE ChunksNew_eager(_, _, _)
ChunksNew_eager(size, running_sum, length) ==
    IF running_sum <= length
    THEN ChunksNew_eager(size * G, running_sum + size * G, length)
    ELSE [size |-> size, running_sum |-> running_sum - size]

\* ExponentialChunks::new: the size of the head bucket and the capacity of
\* the buckets after it.
RECURSIVE ChunksNew(_, _, _)
ChunksNew(size, running_sum, length) ==
    IF running_sum < length
    THEN ChunksNew(size * G, running_sum + size * G, length)
    ELSE [size |-> size, running_sum |-> running_sum - size]

\* ExponentialChunks::next, repeated until it returns None.
RECURSIVE ChunksNext(_, _, _, _)
ChunksNext(items, size, length, running_sum) ==
    LET chunk_size == IF length > running_sum THEN length - running_sum ELSE size
        k == Min(chunk_size, Len(items))
    IN IF k = 0 THEN <<>>
       ELSE <<[size |-> size, items |-> SubSeq(items, 1, k)]>>
            \o ChunksNext(SubSeq(items, k + 1, Len(items)), size \div G,
                          length - k, running_sum)

ExponentialChunks(v) ==
    LET c == ChunksNew(N, N, Len(v))
    IN ChunksNext(v, c.size, Len(v), c.running_sum)

\* from_vec, first half, storing every chunk in the order of the vector.
RECURSIVE AllocPairs_unreversed(_, _, _)
AllocPairs_unreversed(H, chunks, ids) ==
    IF Len(ids) = Len(chunks) THEN [H |-> H, ids |-> ids]
    ELSE LET ch == chunks[Len(ids) + 1]
             H1 == P_new_vec(H, ch.items)
             H2 == P_new_cell(H1, Len(ch.items), NewVecId(H), 0, ch.size)
         IN AllocPairs_unreversed(H2, chunks, Append(ids, NewCellId(H1)))

\* from_vec, first half: one cell per chunk, elements reversed, index = length.
RECURSIVE AllocPairs(_, _, _)
AllocPairs(H, chunks, ids) ==
    IF Len(ids) = Len(chunks) THEN [H |-> H, ids |-> ids]
    ELSE LET ch == chunks[Len(ids) + 1]
             elements == Rev(ch.items)
             H1 == P_new_vec(H, elements)
             H2 == P_new_cell(H1, Len(elements), NewVecId(H), 0, ch.size)
         IN AllocPairs(H2, chunks, Append(ids, NewCellId(H1)))

\* from_vec, second half (also the relinking loop of take): from the back,
\* pop the last node and make it the next of the one before it.
RECURSIVE LinkPairs(_, _)
LinkPairs(H, ids) ==
    IF Len(ids) <= 1 THEN H
    ELSE LinkPairs(SetNext(H, ids[Len(ids) - 1], ids[Len(ids)]),
                   SubSeq(ids, 1, Len(ids) - 1))

from_vec(H, v) ==
    LET a == AllocPairs(H, ExponentialChunks(v), <<>>)
    IN IF Len(a.ids) = 0 THEN Res(new(H), NewCellId(H), NoneV, FALSE)
       ELSE Res(LinkPairs(a.H, a.ids), a.ids[1], NoneV, FALSE)

----------------------------------------------------------------------------
\* Reading a list

\* node_iter: the cells of the chain, head first.
RECURSIVE node_iter(_, _)
node_iter(H, id) ==
    IF id = 0 THEN <<>> ELSE <<id>> \o node_iter(H, H.cells[id].next)

\* elements()[0..index()] panics when index exceeds the length of the vector.
IterPanics(H, id) ==
    \E k \in 1..Len(node_iter(H, id)) :
        ULt(Len(VecOf(H, node_iter(H, id)[k])), H.cells[node_iter(H, id)[k]].index)

\* iter: every cell's elements[0..index], back to front, head cell first.
RECURSIVE iter(_, _)
iter(H, id) ==
    IF id = 0 THEN <<>>
    ELSE LET c == H.cells[id]
             e == H.vecs[c.elements]
         IN Rev(SubSeq(e, 1, UMin(c.index, Len(e)))) \o iter(H, c.next)

\* len: the sum of index over the chain.
RECURSIVE len(_, _)
len(H, id) == IF id = 0 THEN 0 ELSE H.cells[id].index + len(H, H.cells[id].next)

\* slice.get(i) for a usize i (0-based).
VecGet(s, i) == IF 0 <= i /\ i < Len(s) THEN s[i + 1] ELSE NoneV

\* UnrolledCell::car
car(H, id) ==
    LET c == H.cells[id]
    IN IF c.index = 0 THEN NoneV ELSE VecGet(H.vecs[c.elements], c.index - 1)

is_empty(H, id) == Len(VecOf(H, id)) = 0

\* last: the first slot of the last cell's vector.
last(H, id) ==
    LET ns == node_iter(H, id) IN VecGet(VecOf(H, ns[Len(ns)]), 0)

\* get: the loop over the cells after the head.
RECURSIVE get_loop(_, _, _)
get_loop(H, cur, index) ==
    IF cur = 0 THEN [val |-> NoneV, panic |-> FALSE]
    ELSE LET node == H.cells[cur]
             e == H.vecs[node.elements]
         IN IF ULt(index, node.index)
            THEN [val |-> VecGet(e, node.index - index - 1), panic |-> FALSE]
            ELSE IF overflow_checks /\ ULt(index, Len(e))
            THEN [val |-> NoneV, panic |-> TRUE]
            ELSE get_loop(H, node.next, index - Len(e))

get(H, id, index) ==
    LET c == H.cells[id]
        e == H.vecs[c.elements]
    IN IF ULt(index, c.index)
       THEN [val |-> VecGet(e, c.index - index - 1), panic |-> FALSE]
       ELSE IF overflow_checks /\ ULt(index, Len(e))
       THEN [val |-> NoneV, panic |-> TRUE]
       ELSE get_loop(H, c.next, index - Len(e))

\* GenericList::first
first(H, id) == get(H, id, 0)

\* Index<usize>::index: the value get finds, a panic when get returns None.
Index(H, id, i) ==
    LET g == get(H, id, i)
    IN [val |-> g.val, panic |-> g.panic \/ g.val = NoneV]

----------------------------------------------------------------------------
\* Front operations

\* UnrolledCell::cons_mut on the cell of a handle made unique.
cell_cons_mut(H, id, value) ==
    LET H1 == make_mut_elements(H, id)
        H2 == SetVec(H1, id, Append(VecOf(H1, id), value))
    IN SetIndex(H2, id, H2.cells[id].index + 1)

\* cons_mut deciding on the stored length of the vector, before the hidden
\* slots are cut off.
cons_mut_stored(H, id, value) ==
    IF Len(VecOf(H, id)) > H.cells[id].size - 1
    THEN LET Hv == P_new_vec(H, <<value>>)
             Hc == P_new_cell(P_clone(Hv, id), 1, NewVecId(H), id,
                              H.cells[id].size * GROWTH_RATE)
         IN Res(P_drop(Hc, id), NewCellId(H), NoneV, FALSE)
    ELSE LET index == H.cells[id].index
             id1 == MutId(H, id)
             H1 == make_mut(H, id)
             H2 == make_mut_elements(H1, id1)
             H3 == SetVec(H2, id1, truncate(VecOf(H2, id1), index))
         IN Res(cell_cons_mut(H3, id1, value), id1, NoneV, FALSE)

\* cons_mut giving the new head the size of the old one.
cons_mut_flat(H, id, value) ==
    LET index == H.cells[id].index
        cut == ULt(index, Len(VecOf(H, id)))
        id1 == IF cut THEN MutId(H, id) ELSE id
        H1 == IF cut THEN make_mut(H, id) ELSE H
        H2 == IF cut THEN make_mut_elements(H1, id1) ELSE H1
        H3 == IF cut THEN SetVec(H2, id1, truncate(VecOf(H2, id1), index)) ELSE H2
    IN IF Len(VecOf(H3, id1)) > H3.cells[id1].size - 1
       THEN \* a new head whose next is a clone of self; the old self is dropped
            LET Hv == P_new_vec(H3, <<value>>)
                Hc == P_new_cell(P_clone(Hv, id1), 1, NewVecId(H3), id1,
                                 H3.cells[id1].size)
            IN Res(P_drop(Hc, id1), NewCellId(H3), NoneV, FALSE)
       ELSE LET id4 == MutId(H3, id1)
                H4 == make_mut(H3, id1)
            IN Res(cell_cons_mut(H4, id4, value), id4, NoneV, FALSE)

\* UnrolledList::cons_mut (push_front is an alias).
cons_mut(H, id, value) ==
    LET index == H.cells[id].index
        cut == ULt(index, Len(VecOf(H, id)))
        id1 == IF cut THEN MutId(H, id) ELSE id
        H1 == IF cut THEN make_mut(H, id) ELSE H
        H2 == IF cut THEN make_mut_elements(H1, id1) ELSE H1
        H3 == IF cut THEN SetVec(H2, id1, truncate(VecOf(H2, id1), index)) ELSE H2
    IN IF Len(VecOf(H3, id1)) > H3.cells[id1].size - 1
       THEN \* a new head whose next is a clone of self; the old self is dropped
            LET Hv == P_new_vec(H3, <<value>>)
                Hc == P_new_cell(P_clone(Hv, id1), 1, NewVecId(H3), id1,
                                 H3.cells[id1].size * GROWTH_RATE)
            IN Res(P_drop(Hc, id1), NewCellId(H3), NoneV, FALSE)
       ELSE LET id4 == MutId(H3, id1)
                H4 == make_mut(H3, id1)
            IN Res(cell_cons_mut(H4, id4, value), id4, NoneV, FALSE)

\* UnrolledCell::cons: the handle on cell id is consumed.
cons(H, value, id) ==
    LET size == H.cells[id].size
    IN IF Len(VecOf(H, id)) > size - 1
       THEN LET Hv == P_new_vec(H, <<value>>)
            IN Res(P_new_cell(Hv, 1, NewVecId(H), id, size * GROWTH_RATE),
                   NewCellId(H), NoneV, FALSE)
       ELSE LET id1 == MutId(H, id)
                H1 == make_mut(H, id)
                H2 == make_mut_elements(H1, id1)
                H3 == SetIndex(H2, id1, H2.cells[id1].index + 1)
            IN Res(SetVec(H3, id1, Append(VecOf(H3, id1), value)), id1,
                   NoneV, FALSE)

\* advance_cursor copying the elements vector instead of sharing it.
advance_cursor_copy(H, id) ==
    LET c == H.cells[id]
        Hv == P_new_vec(H, VecOf(H, id))
    IN P_new_cell(P_clone(Hv, c.next), c.index - 1, NewVecId(H), c.next, c.size)

\* UnrolledCell::advance_cursor, wrapped in a new node by cdr.
advance_cursor(H, id) ==
    LET c == H.cells[id]
    IN P_new_cell(P_clone(H, c.next), c.index - 1, c.elements, c.next, c.size)

\* UnrolledCell::cdr: id = 0 in the result is None.
cdr(H, id) ==
    LET c == H.cells[id]
    IN IF ULt(1, c.index)
       THEN Res(advance_cursor(H, id), NewCellId(H), 1, FALSE)
       ELSE Res(P_clone(H, c.next), c.next, IF c.next = 0 THEN 0 ELSE 1, FALSE)

\* pop_front popping from the vector in place, whoever else holds it.
pop_front_shared(H, id) ==
    LET id1 == MutId(H, id)
        H2 == make_mut(H, id)
        e == VecOf(H2, id1)
        some == Len(e) > 0
        popped == IF some THEN e[Len(e)] ELSE NoneV
        H3 == IF some THEN SetVec(H2, id1, SubSeq(e, 1, Len(e) - 1)) ELSE H2
        index == H3.cells[id1].index
        H4 == IF some THEN SetIndex(H3, id1, index - 1) ELSE H3
        next == H4.cells[id1].next
    IN IF some /\ ULt(index, 1) /\ overflow_checks
       THEN Res(H, id, NoneV, TRUE)
       ELSE IF H4.cells[id1].index = 0 /\ next # 0
       THEN LET H5 == [H4 EXCEPT !.cells[id1].next = 0, !.ext[next] = @ + 1]
            IN Res(P_drop(H5, id1), next, popped, FALSE)
       ELSE Res(H4, id1, popped, FALSE)

\* UnrolledList::pop_front: val is the popped value, NoneV for None.
pop_front(H, id) ==
    LET id1 == MutId(H, id)
        H1 == make_mut(H, id)
        H2 == make_mut_elements(H1, id1)
        e == VecOf(H2, id1)
        some == Len(e) > 0
        popped == IF some THEN e[Len(e)] ELSE NoneV
        H3 == IF some THEN SetVec(H2, id1, SubSeq(e, 1, Len(e) - 1)) ELSE H2
        index == H3.cells[id1].index
        H4 == IF some THEN SetIndex(H3, id1, index - 1) ELSE H3
        next == H4.cells[id1].next
    IN IF some /\ ULt(index, 1) /\ overflow_checks
       THEN Res(H, id, NoneV, TRUE)
       ELSE IF H4.cells[id1].index = 0 /\ next # 0
       THEN \* self becomes the next node; the emptied head is dropped
            LET H5 == [H4 EXCEPT !.cells[id1].next = 0, !.ext[next] = @ + 1]
            IN Res(P_drop(H5, id1), next, popped, FALSE)
       ELSE Res(H4, id1, popped, FALSE)

\* cdr_mut moving the cursor of the node as it is, shared or not.
cdr_mut_shared(H, id) ==
    LET index == H.cells[id].index
        id1 == MutId(H, id)
        H1 == make_mut(H, id)
        output == H1.cells[id1].next
    IN IF ULt(1, index)
       THEN Res(SetIndex(H, id, index - 1), id, 1, FALSE)
       ELSE IF output # 0
       THEN LET H2 == [H1 EXCEPT !.cells[id1].next = 0, !.ext[output] = @ + 1]
            IN Res(P_drop(H2, id1), output, 1, FALSE)
       ELSE Res(P_drop(new(H1), id1), NewCellId(H1), 0, FALSE)

\* UnrolledList::cdr_mut: val = 1 for Some(self), 0 for None.
cdr_mut(H, id) ==
    LET index == H.cells[id].index
        id1 == MutId(H, id)
        H1 == make_mut(H, id)
        output == H1.cells[id1].next
    IN IF ULt(1, index)
       THEN Res(SetIndex(H1, id1, index - 1), id1, 1, FALSE)
       ELSE IF output # 0
       THEN LET H2 == [H1 EXCEPT !.cells[id1].next = 0, !.ext[output] = @ + 1]
            IN Res(P_drop(H2, id1), output, 1, FALSE)
       ELSE Res(P_drop(new(H1), id1), NewCellId(H1), 0, FALSE)

\* One step of an operation in progress: the heap it leaves and the node the
\* operation's handle then holds.
Step(op, H, id) == [op |-> op, H |-> H, id |-> id]

\* UnrolledList::cons_mut, one entry per pointer operation or field write:
\* make_mut of the node, make_mut of its vector, truncate; then either the new
\* vector, the clone of self, the new node and the swap that drops the old
\* self, or make_mut of the node and of the vector, push, cursor increment.
cons_mut_steps(H, id, value) ==
    LET index == H.cells[id].index
        cut == ULt(index, Len(VecOf(H, id)))
        id1 == IF cut THEN MutId(H, id) ELSE id
        H1 == make_mut(H, id)
        H2 == make_mut_elements(H1, id1)
        H3 == SetVec(H2, id1, truncate(VecOf(H2, id1), index))
        pre == IF cut
               THEN <<Step("cons_mut", H1, id1), Step("cons_mut", H2, id1),
                      Step("cons_mut", H3, id1)>>
               ELSE <<>>
        B == IF cut THEN H3 ELSE H
    IN IF Len(VecOf(B, id1)) > B.cells[id1].size - 1
       THEN LET Hv == P_new_vec(B, <<value>>)
                Hk == P_clone(Hv, id1)
                Hc == P_new_cell(Hk, 1, NewVecId(B), id1,
                                 B.cells[id1].size * GROWTH_RATE)
            IN pre \o <<Step("cons_mut", Hv, id1), Step("cons_mut", Hk, id1),
                        Step("cons_mut", Hc, id1),
                        Step("cons_mut", P_drop(Hc, id1), NewCellId(B))>>
       ELSE LET id4 == MutId(B, id1)
                H4 == make_mut(B, id1)
                H5 == make_mut_elements(H4, id4)
                H6 == SetVec(H5, id4, Append(VecOf(H5, id4), value))
                H7 == SetIndex(H6, id4, H6.cells[id4].index + 1)
            IN pre \o <<Step("cons_mut", H4, id4), Step("cons_mut", H5, id4),
                        Step("cons_mut", H6, id4), Step("cons_mut", H7, id4)>>

\* pop_front_steps popping from the vector without making it unique.
pop_front_steps_shared(H, id) ==
    LET id1 == MutId(H, id)
        H1 == make_mut(H, id)
        e == VecOf(H1, id1)
        some == Len(e) > 0
        H3 == SetVec(H1, id1, SubSeq(e, 1, Len(e) - 1))
        index == H3.cells[id1].index
        H4 == SetIndex(H3, id1, index - 1)
        next == H4.cells[id1].next
        H5 == [H4 EXCEPT !.cells[id1].next = 0, !.ext[next] = @ + 1]
        mut == <<Step("pop_front", H1, id1)>>
    IN IF ~some THEN mut
       ELSE IF ULt(index, 1) /\ overflow_checks
       THEN mut \o <<Step("pop_front", H3, id1)>>
       ELSE IF H4.cells[id1].index = 0 /\ next # 0
       THEN mut \o <<Step("pop_front", H3, id1), Step("pop_front", H4, id1),
                     Step("pop_front", H5, id1),
                     Step("pop_front", P_drop(H5, id1), next)>>
       ELSE mut \o <<Step("pop_front", H3, id1), Step("pop_front", H4, id1)>>

\* UnrolledList::pop_front, one entry per pointer operation or field write:
\* make_mut of the node, make_mut of its vector, pop, cursor decrement (where
\* the operation ends if it panics), then the next node taken out of the
\* emptied head and the head dropped by the swap.
pop_front_steps(H, id) ==
    LET id1 == MutId(H, id)
        H1 == make_mut(H, id)
        H2 == make_mut_elements(H1, id1)
        e == VecOf(H2, id1)
        some == Len(e) > 0
        H3 == SetVec(H2, id1, SubSeq(e, 1, Len(e) - 1))
        index == H3.cells[id1].index
        H4 == SetIndex(H3, id1, index - 1)
        next == H4.cells[id1].next
        H5 == [H4 EXCEPT !.cells[id1].next = 0, !.ext[next] = @ + 1]
        mut == <<Step("pop_front", H1, id1), Step("pop_front", H2, id1)>>
    IN IF ~some THEN mut
       ELSE IF ULt(index, 1) /\ overflow_checks
       THEN mut \o <<Step("pop_front", H3, id1)>>
       ELSE IF H4.cells[id1].index = 0 /\ next # 0
       THEN mut \o <<Step("pop_front", H3, id1), Step("pop_front", H4, id1),
                     Step("pop_front", H5, id1),
                     Step("pop_front", P_drop(H5, id1), next)>>
       ELSE mut \o <<Step("pop_front", H3, id1), Step("pop_front", H4, id1)>>

\* UnrolledList::cdr_mut, one entry per pointer operation or field write:
\* make_mut of the node, then the cursor decrement, or the next node taken
\* out and assigned to self, or a new empty list assigned to self.
cdr_mut_steps(H, id) ==
    LET index == H.cells[id].index
        id1 == MutId(H, id)
        H1 == make_mut(H, id)
        output == H1.cells[id1].next
        H2 == [H1 EXCEPT !.cells[id1].next = 0, !.ext[output] = @ + 1]
        Hv == P_new_vec(H1, <<>>)
        Hn == new(H1)
    IN IF ULt(1, index)
       THEN <<Step("cdr_mut", H1, id1),
              Step("cdr_mut", SetIndex(H1, id1, index - 1), id1)>>
       ELSE IF output # 0
       THEN <<Step("cdr_mut", H1, id1), Step("cdr_mut", H2, id1),
              Step("cdr_mut", P_drop(H2, id1), output)>>
       ELSE <<Step("cdr_mut", H1, id1), Step("cdr_mut", Hv, id1),
              Step("cdr_mut", Hn, id1),
              Step("cdr_mut", P_drop(Hn, id1), NewCellId(H1))>>

----------------------------------------------------------------------------
\* Whole-chain operations

\* reverse, the loop over the nodes after the first: right is the node the
\* iterator holds, left the reversed part built so far.
RECURSIVE reverse_loop(_, _, _)
reverse_loop(H, left, right) ==
    IF right = 0 THEN Res(H, left, NoneV, FALSE)
    ELSE LET nxt == H.cells[right].next
             H0 == P_clone(H, nxt)
             r1 == MutId(H0, right)
             H1 == make_mut(H0, right)
             H2 == make_mut_elements(H1, r1)
             H3 == SetVec(H2, r1, Rev(truncate(VecOf(H2, r1), H2.cells[r1].index)))
         IN reverse_loop(SetNext(H3, r1, left), r1, nxt)

\* reverse that reverses the whole vector of the head cell, hidden slots
\* included.
reverse_untruncated(H, id) ==
    LET nxt == H.cells[id].next
        H0 == P_clone(H, nxt)
        l1 == MutId(H0, id)
        H1 == make_mut(H0, id)
        H2 == make_mut_elements(H1, l1)
        H3 == SetVec(H2, l1, Rev(VecOf(H2, l1)))
    IN reverse_loop(SetNext(H3, l1, 0), l1, nxt)

\* UnrolledList::reverse: the handle on cell id is consumed.
reverse(H, id) ==
    LET nxt == H.cells[id].next
        H0 == P_clone(H, nxt)
        l1 == MutId(H0, id)
        H1 == make_mut(H0, id)
        H2 == make_mut_elements(H1, l1)
        H3 == SetVec(H2, l1, Rev(truncate(VecOf(H2, l1), H2.cells[l1].index)))
    IN reverse_loop(SetNext(H3, l1, 0), l1, nxt)

\* into_node_iter().collect(): the head handle is moved into the vector of
\* nodes, every later node is a clone of the next link before it.
RECURSIVE CloneAll(_, _)
CloneAll(H, ids) ==
    IF ids = <<>> THEN H ELSE CloneAll(P_clone(H, Head(ids)), Tail(ids))

into_nodes(H, id) == CloneAll(H, Tail(node_iter(H, id)))

\* Whether from_iter merges cell into prev's place: the lengths of the two
\* vectors against the size of the right one.
fits(H, cell, prev) ==
    Len(VecOf(H, cell)) + Len(VecOf(H, prev)) <= H.cells[prev].size

\* The merge of the right node prev into the left node cell (already made
\* unique as L and R); R is dropped at the end of the loop body.
coalesce(H, L, R) ==
    LET H3 == make_mut_elements(H, L)
        H4 == make_mut_elements(H3, R)
        lv == truncate(VecOf(H4, L), H4.cells[L].index)
        rv == truncate(VecOf(H4, R), H4.cells[R].index)
        merged == rv \o lv
        H5 == SetVec(SetVec(H4, L, merged), R, <<>>)
        H6 == SetIndex(SetIndex(H5, L, Len(merged)), R, 0)
        H7 == [H6 EXCEPT !.cells[L].next = H6.cells[R].next,
                         !.cells[R].next = H6.cells[L].next]
    IN P_drop(H7, R)
\* The loop of FromIterator<UnrolledList> merging into the right node as it
\* is, without making it unique first.
RECURSIVE from_iter_nodes_shared(_, _)
from_iter_nodes_shared(H, nodes) ==
    IF Len(nodes) = 0 THEN Res(new(H), NewCellId(H), NoneV, FALSE)
    ELSE IF Len(nodes) = 1 THEN Res(H, nodes[1], NoneV, FALSE)
    ELSE LET i == Len(nodes) - 1
             prev == nodes[i + 1]
             cell == nodes[i]
             L == MutId(H, cell)
             H1 == make_mut(H, cell)
         IN IF fits(H, cell, prev)
            THEN from_iter_nodes_shared(coalesce(H1, L, prev),
                                        Append(SubSeq(nodes, 1, i - 1), L))
            ELSE from_iter_nodes_shared(SetNext(H1, L, prev),
                                        Append(SubSeq(nodes, 1, i - 1), L))

\* FromIterator<UnrolledList>: the loop over the collected nodes, from the
\* back.
RECURSIVE from_iter_nodes(_, _)
from_iter_nodes(H, nodes) ==
    IF Len(nodes) = 0 THEN Res(new(H), NewCellId(H), NoneV, FALSE)
    ELSE IF Len(nodes) = 1 THEN Res(H, nodes[1], NoneV, FALSE)
    ELSE LET i == Len(nodes) - 1
             prev == nodes[i + 1]
             cell == nodes[i]
             L == MutId(H, cell)
             H1 == make_mut(H, cell)
         IN IF fits(H, cell, prev)
            THEN LET R == MutId(H1, prev)
                     H2 == make_mut(H1, prev)
                 IN from_iter_nodes(coalesce(H2, L, R),
                                    Append(SubSeq(nodes, 1, i - 1), L))
            ELSE from_iter_nodes(SetNext(H1, L, prev),
                                 Append(SubSeq(nodes, 1, i - 1), L))

\* append that forgets to release the handle on its right operand.
append_leaky(H, a, b) ==
    IF is_empty(H, b) THEN Res(H, a, NoneV, FALSE)
    ELSE from_iter_nodes(P_clone(into_nodes(into_nodes(H, a), b), b),
                         node_iter(H, a) \o node_iter(H, b))

\* UnrolledList::append (append_mut swaps self out and calls it): both
\* handles are consumed.
append(H, a, b) ==
    IF is_empty(H, b) THEN Res(P_drop(H, b), a, NoneV, FALSE)
    ELSE from_iter_nodes(into_nodes(into_nodes(H, a), b),
                         node_iter(H, a) \o node_iter(H, b))

\* Extend::extend: append_mut of the collected iterator.
extend(H, a, v) ==
    LET r == from_vec(H, v) IN append(r.H, a, r.id)

\* push_back: extend with one value.
push_back(H, a, value) == extend(H, a, <<value>>)

\* take, the loop that relinks the collected nodes from the back.
RECURSIVE take_relink(_, _)
take_relink(H, nodes) ==
    IF Len(nodes) <= 1 THEN Res(H, nodes[1], NoneV, FALSE)
    ELSE LET i == Len(nodes) - 1
             c1 == MutId(H, nodes[i])
             H1 == make_mut(H, nodes[i])
         IN take_relink(SetNext(H1, c1, nodes[i + 1]),
                        Append(SubSeq(nodes, 1, i - 1), c1))

\* take, the loop over the nodes: node is the handle the iterator yielded.
RECURSIVE take_loop(_, _, _, _)
take_loop(H, node, count, nodes) ==
    IF node = 0 THEN take_relink(H, nodes)
    ELSE LET nxt == H.cells[node].next
             H0 == P_clone(H, nxt)
             e0 == VecOf(H0, node)
         IN IF ULt(count, H0.cells[node].index)
            THEN LET n1 == MutId(H0, node)
                     H1 == make_mut(H0, node)
                     H2 == SetNext(H1, n1, 0)
                     H3 == make_mut_elements(H2, n1)
                     e == VecOf(H3, n1)
                     at == H3.cells[n1].index - count
                 IN IF ULt(Len(e), at)
                    THEN Res(H, 0, NoneV, TRUE)
                    ELSE LET H4 == SetVec(SetIndex(H3, n1, count), n1,
                                          SubSeq(e, at + 1, Len(e)))
                         IN take_relink(P_drop(H4, nxt), Append(nodes, n1))
            ELSE IF overflow_checks /\ ULt(count, Len(e0))
            THEN Res(H, 0, NoneV, TRUE)
            ELSE take_loop(H0, nxt, count - Len(e0), Append(nodes, node))

\* UnrolledList::take: self is borrowed, the result is a new handle.
take(H, id, count) ==
    IF count = 0 THEN Res(new(H), NewCellId(H), NoneV, FALSE)
    ELSE IF ULt(H.cells[id].index, count) /\ H.cells[id].next = 0
    THEN Res(P_clone(H, id), id, NoneV, FALSE)
    ELSE take_loop(P_clone(H, id), id, count, <<>>)

\* tail, the loop over the nodes.
RECURSIVE tail_loop(_, _, _)
tail_loop(H, node, n) ==
    IF node = 0
    THEN IF n = 0 THEN Res(new(H), NewCellId(H), 1, FALSE)
         ELSE Res(H, 0, 0, FALSE)
    ELSE LET nxt == H.cells[node].next
             H0 == P_clone(H, nxt)
             e0 == VecOf(H0, node)
         IN IF ULt(n, H0.cells[node].index)
            THEN LET n1 == MutId(H0, node)
                     H1 == make_mut(H0, node)
                     H2 == SetIndex(H1, n1, H1.cells[n1].index - n)
                 IN Res(P_drop(H2, nxt), n1, 1, FALSE)
            ELSE IF overflow_checks /\ ULt(n, Len(e0))
            THEN Res(H, 0, 0, TRUE)
            ELSE tail_loop(P_drop(H0, node), nxt, n - Len(e0))

\* UnrolledList::tail: val = 1 for Some(list), 0 for None.
tail(H, id, n) ==
    IF n = 0 THEN Res(P_clone(H, id), id, 1, FALSE)
    ELSE tail_loop(P_clone(H, id), id, n)

\* Vec::sort_by with the natural order: a stable insertion.
RECURSIVE SortedInsert(_, _)
SortedInsert(s, x) ==
    IF s = <<>> THEN <<x>>
    ELSE IF s[Len(s)] <= x THEN Append(s, x)
    ELSE Append(SortedInsert(SubSeq(s, 1, Len(s) - 1), x), s[Len(s)])

RECURSIVE SortVec(_)
SortVec(s) ==
    IF s = <<>> THEN <<>>
    ELSE SortedInsert(SortVec(SubSeq(s, 1, Len(s) - 1)), s[Len(s)])

\* Vec::sort_by with a comparator that orders the values by x \div d (d = 1
\* is the natural order): values with the same key compare equal.
RECURSIVE SortedInsertBy(_, _, _)
SortedInsertBy(s, x, d) ==
    IF s = <<>> THEN <<x>>
    ELSE IF s[Len(s)] \div d <= x \div d THEN Append(s, x)
    ELSE Append(SortedInsertBy(SubSeq(s, 1, Len(s) - 1), x, d), s[Len(s)])

RECURSIVE SortVecBy(_, _)
SortVecBy(s, d) ==
    IF s = <<>> THEN <<>>
    ELSE SortedInsertBy(SortVecBy(SubSeq(s, 1, Len(s) - 1), d), s[Len(s)], d)

\* sort_by(cmp) with cmp comparing x \div d.
sort_by(H, id, d) ==
    LET vec == iter(H, id)
    IN from_vec(P_drop(H, id), SortVecBy(vec, d))

\* sort that rebuilds the list from the collected vector as it is.
sort_unsorted(H, id) ==
    LET vec == iter(H, id)
    IN from_vec(P_drop(H, id), vec)

\* sort / sort_by: the list is consumed into a vector (into_iter takes at
\* most index elements of every cell), sorted and rebuilt.
sort(H, id) ==
    LET vec == iter(H, id)
    IN from_vec(P_drop(H, id), SortVec(vec))

\* draining_iterator, one node at a time.  DrainingNodeIter::next moves on
\* to the next node (holding a clone of the link) only when that node and
\* its vector have strong count 1; the closure then yields the elements of
\* the node it was given when try_unwrap of the node and get_mut of its
\* vector both succeed, and the node handle is dropped either way.  log has
\* one entry per node consumed: whether both counts were 1 and what was
\* yielded.
RECURSIVE drain_loop(_, _, _)
\* The draining loop that never moves on to the next node.
drain_first(H, cur, log) ==
    IF cur = 0 THEN [H |-> H, log |-> log]
    ELSE LET unique == /\ strong_count(H, cur) = 1
                       /\ elements_strong_count(H, cur) = 1
             e == VecOf(H, cur)
             out == IF unique
                    THEN Rev(SubSeq(e, 1, UMin(H.cells[cur].index, Len(e))))
                    ELSE <<>>
         IN [H |-> P_drop(H, cur),
             log |-> Append(log, [unique |-> unique, out |-> out])]

drain_loop(H, cur, log) ==
    IF cur = 0 THEN [H |-> H, log |-> log]
    ELSE LET nxt == H.cells[cur].next
             go == /\ nxt # 0
                   /\ strong_count(H, nxt) = 1
                   /\ elements_strong_count(H, nxt) = 1
             H1 == IF go THEN P_clone(H, nxt) ELSE H
             unique == /\ strong_count(H1, cur) = 1
                       /\ elements_strong_count(H1, cur) = 1
             e == VecOf(H1, cur)
             out == IF unique
                    THEN Rev(SubSeq(e, 1, UMin(H1.cells[cur].index, Len(e))))
                    ELSE <<>>
         IN drain_loop(P_drop(H1, cur), IF go THEN nxt ELSE 0,
                       Append(log, [unique |-> unique, out |-> out]))

\* flat_map: what the nodes yielded, one after the other.
RECURSIVE Flatten(_)
Flatten(log) ==
    IF log = <<>> THEN <<>> ELSE Head(log).out \o Flatten(Tail(log))

\* UnrolledList::draining_iterator, collected: the handle on cell id is
\* consumed.
draining_iterator(H, id) ==
    LET d == drain_loop(H, id, <<>>)
    IN [H |-> d.H, log |-> d.log, out |-> Flatten(d.log)]

----------------------------------------------------------------------------
\* The program: two handles and the operations applied to them

Fresh(k) == [i \in 1..k |-> nextVal + i - 1]

Live(h) == hd[h] # 0

Other(h) == IF h = "l" THEN "c" ELSE "l"

Running == ~ret.panic

\* The reference vector's side of cdr / pop_front (act_on_vector).
RemoveFirst(v) == IF Len(v) = 0 THEN v ELSE Tail(v)

InRange(H) == \A k \in DOMAIN H.cells : H.cells[k].index >= 0 - MaxWrap

\* Addresses are observed only through pointer equality, so the heap is kept
\* up to renaming: after each operation the cells and the vectors are numbered
\* in the order in which the handles l, c reach them.
RECURSIVE Dedup(_)
Dedup(s) ==
    IF Len(s) = 0 THEN <<>>
    ELSE LET d == Dedup(SubSeq(s, 1, Len(s) - 1))
         IN IF \E i \in 1..Len(d) : d[i] = s[Len(s)] THEN d
            ELSE Append(d, s[Len(s)])

Pos(s, x) == IF x = 0 THEN 0 ELSE CHOOSE i \in 1..Len(s) : s[i] = x

Relocate(H, hdn) ==
    LET ord == Dedup(node_iter(H, hdn["l"]) \o node_iter(H, hdn["c"]))
        vord == Dedup([i \in 1..Len(ord) |-> H.cells[ord[i]].elements])
    IN [cells |-> [i \in 1..Len(ord) |->
                    [index |-> H.cells[ord[i]].index,
                     elements |-> Pos(vord, H.cells[ord[i]].elements),
                     next |-> Pos(ord, H.cells[ord[i]].next),
                     size |-> H.cells[ord[i]].size]],
        vecs |-> [i \in 1..Len(vord) |-> H.vecs[vord[i]]],
        ext |-> [i \in 1..Len(ord) |-> H.ext[ord[i]]],
        hd |-> [x \in Handles |-> Pos(ord, hdn[x])]]

\* The effect of an operation on src that leaves its result r in h; H1 is
\* the heap once the handle that h held before has been dropped.  After a
\* panic the program is over and the heap is left as it was.
Done(op, h, src, arg, r, H1, id, newRef) ==
    /\ r.panic \/ InRange(H1)
    /\ IF Live("c") \/ h = "c"
       THEN ops < MaxOps /\ ops' = ops + 1
       ELSE ops' = ops
    /\ ret' = [op |-> op, h |-> h, src |-> src, arg |-> arg,
               val |-> IF r.panic THEN NoneV ELSE r.val, panic |-> r.panic]
    /\ IF r.panic
       THEN UNCHANGED <<cells, vecs, ext, hd, ref>>
       ELSE LET K == Relocate(H1, [hd EXCEPT ![h] = id])
            IN /\ cells' = K.cells
               /\ vecs' = K.vecs
               /\ ext' = K.ext
               /\ hd' = K.hd
               /\ ref' = [ref EXCEPT ![h] = newRef]
    /\ UNCHANGED <<G, N, overflow_checks, steps>>

\* An operation through &mut self, or one that consumes self and is
\* assigned back.
InPlace(op, h, arg, r, newRef) == Done(op, h, h, arg, r, r.H, r.id, newRef)

\* An operation through &self whose result is assigned to h.
Assign(op, h, src, arg, r, newRef) ==
    Done(op, h, src, arg, r, P_drop(r.H, hd[h]), r.id, newRef)

Init ==
    /\ G \in 1..MaxG
    /\ N = VListN
    /\ overflow_checks \in BOOLEAN
    /\ \E k \in 0..MaxInit :
        LET v == [i \in 1..k |-> i]
            r == from_vec([cells |-> <<>>, vecs |-> <<>>, ext |-> <<>>], v)
        IN /\ cells = r.H.cells
           /\ vecs = r.H.vecs
           /\ ext = r.H.ext
           /\ hd = [h \in Handles |-> IF h = "l" THEN r.id ELSE 0]
           /\ ref = [h \in Handles |-> IF h = "l" THEN v ELSE <<>>]
           /\ nextVal = k + 1
    /\ ops = 0
    /\ steps = <<>>
    /\ ret = [op |-> "init", h |-> "l", src |-> "l", arg |-> 0, val |-> NoneV,
              panic |-> FALSE]

ConsMut(h) ==
    /\ Running /\ Live(h) /\ nextVal <= MaxVal
    /\ InPlace("cons_mut", h, nextVal, cons_mut(Heap, hd[h], nextVal),
               <<nextVal>> \o ref[h])
    /\ nextVal' = nextVal + 1

\* l = cons(v, l) moves the list; c = cons(v, l.clone()) keeps l.
Cons(src, h) ==
    /\ Running /\ Live(src) /\ nextVal <= MaxVal
    /\ IF src = h
       THEN InPlace("cons", h, nextVal, cons(Heap, nextVal, hd[h]),
                    <<nextVal>> \o ref[h])
       ELSE Assign("cons", h, src, nextVal,
                   cons(P_clone(Heap, hd[src]), nextVal, hd[src]),
                   <<nextVal>> \o ref[src])
    /\ nextVal' = nextVal + 1

\* h = src.cdr().unwrap_or(List::new())
Cdr(src, h) ==
    /\ Running /\ Live(src)
    /\ LET r == cdr(Heap, hd[src])
           H1 == IF r.id = 0 THEN new(r.H) ELSE r.H
           id == IF r.id = 0 THEN NewCellId(r.H) ELSE r.id
       IN Done("cdr", h, src, 0, r, P_drop(H1, hd[h]), id, RemoveFirst(ref[src]))
    /\ UNCHANGED nextVal

CdrMut(h) ==
    /\ Running /\ Live(h)
    /\ InPlace("cdr_mut", h, 0, cdr_mut(Heap, hd[h]), RemoveFirst(ref[h]))
    /\ UNCHANGED nextVal

PopFront(h) ==
    /\ Running /\ Live(h)
    /\ InPlace("pop_front", h, 0, pop_front(Heap, hd[h]), RemoveFirst(ref[h]))
    /\ UNCHANGED nextVal

PushBack(h) ==
    /\ Running /\ Live(h) /\ nextVal <= MaxVal
    /\ InPlace("push_back", h, nextVal, push_back(Heap, hd[h], nextVal),
               Append(ref[h], nextVal))
    /\ nextVal' = nextVal + 1

Extend(h) ==
    /\ Running /\ Live(h)
    /\ \E k \in 0..MaxExt :
        /\ nextVal + k - 1 <= MaxVal
        /\ InPlace("extend", h, k, extend(Heap, hd[h], Fresh(k)),
                   ref[h] \o Fresh(k))
        /\ nextVal' = nextVal + k

\* h.append_mut(o.clone())
AppendMut(h, o) ==
    /\ Running /\ Live(h) /\ Live(o)
    /\ Len(iter(Heap, hd[h])) + Len(iter(Heap, hd[o])) <= MaxLen
    /\ Done("append_mut", h, o, 0, append(P_clone(Heap, hd[o]), hd[h], hd[o]),
            append(P_clone(Heap, hd[o]), hd[h], hd[o]).H,
            append(P_clone(Heap, hd[o]), hd[h], hd[o]).id, ref[h] \o ref[o])
    /\ UNCHANGED nextVal

Reverse(h) ==
    /\ Running /\ Live(h)
    /\ InPlace("reverse", h, 0, reverse(Heap, hd[h]), Rev(ref[h]))
    /\ UNCHANGED nextVal

Take(src, h) ==
    /\ Running /\ Live(src)
    /\ \E k \in 0..MaxArg :
        Assign("take", h, src, k, take(Heap, hd[src], k),
               SubSeq(ref[src], 1, Min(k, Len(ref[src]))))
    /\ UNCHANGED nextVal

\* if let Some(t) = src.tail(k) { h = t }
Tail_(src, h) ==
    /\ Running /\ Live(src)
    /\ \E k \in 0..MaxArg :
        LET r == tail(Heap, hd[src], k)
        IN IF r.panic \/ r.id # 0
           THEN Assign("tail", h, src, k, r,
                       SubSeq(ref[src], k + 1, Len(ref[src])))
           ELSE Done("tail", h, src, k, r, r.H, hd[h], ref[h])
    /\ UNCHANGED nextVal

Sort(h) ==
    /\ Running /\ Live(h)
    /\ InPlace("sort", h, 0, sort(Heap, hd[h]), SortVec(ref[h]))
    /\ UNCHANGED nextVal

\* h = src.clone()
Clone(src, h) ==
    /\ Running /\ Live(src) /\ src # h
    /\ Assign("clone", h, src, 0,
              Res(P_clone(Heap, hd[src]), hd[src], NoneV, FALSE), ref[src])
    /\ UNCHANGED nextVal

\* drop(c)
Drop(h) ==
    /\ Running /\ Live(h) /\ h # "l"
    /\ Done("drop", h, h, 0, Res(Heap, 0, NoneV, FALSE), P_drop(Heap, hd[h]),
            0, <<>>)
    /\ UNCHANGED nextVal

\* h.draining_iterator().collect(): h is consumed, and what was collected
\* is kept in ref[h].
Drain(h) ==
    /\ Running /\ Live(h)
    /\ LET d == draining_iterator(Heap, hd[h])
       IN Done("drain", h, h, 0, Res(d.H, 0, NoneV, FALSE), d.H, 0, d.out)
    /\ UNCHANGED nextVal

\* One list l: every operation, its result assigned back to l.
Next ==
    \/ ConsMut("l")
    \/ Cons("l", "l")
    \/ Cdr("l", "l")
    \/ CdrMut("l")
    \/ PopFront("l")
    \/ PushBack("l")
    \/ Extend("l")
    \/ Reverse("l")
    \/ Take("l", "l")
    \/ Tail_("l", "l")
    \/ Sort("l")

Spec == Init /\ [][Next]_vars

\* Two handles: c is taken from l (a clone, or the result of an operation
\* that borrows l), then either handle is operated on.
ShareNext ==
    \/ Clone("l", "c")
    \/ Cons("l", "c")
    \/ Cdr("l", "c")
    \/ Take("l", "c")
    \/ Tail_("l", "c")
    \/ Drop("c")
    \/ \E h \in Handles : Live("c") /\ ConsMut(h)
    \/ \E h \in Handles : Live("c") /\ CdrMut(h)
    \/ \E h \in Handles : Live("c") /\ PopFront(h)
    \/ \E h \in Handles : Live("c") /\ PushBack(h)
    \/ \E h \in Handles : Live("c") /\ Extend(h)
    \/ \E h \in Handles : Live("c") /\ Reverse(h)
    \/ \E h \in Handles : Live("c") /\ Sort(h)
    \/ \E h \in Handles, o \in Handles : h # o /\ AppendMut(h, o)

ShareSpec == Init /\ [][ShareNext]_vars

\* Two handles as in ShareSpec, either of which may be drained.
DrainNext ==
    \/ ShareNext
    \/ Drain("l")
    \/ Drain("c")

DrainSpec == Init /\ [][DrainNext]_vars

\* One list l that nothing else holds, operated on and then drained.
OwnedNext ==
    \/ Next
    \/ Drain("l")

OwnedSpec == Init /\ [][OwnedNext]_vars

\* Two threads, each with its own handle on the list: c's thread mutates c
\* while l's thread reads l.  An operation of the writer takes effect one
\* pointer operation or field write at a time (steps), and the reader may read
\* between any two of them.
ThreadOps == {"cons_mut", "pop_front", "cdr_mut"}

ThreadBegin(w) ==
    /\ Running /\ Live(w) /\ Live(Other(w)) /\ steps = <<>> /\ ops < MaxOps
    /\ \E op \in ThreadOps :
        /\ op = "cons_mut" => nextVal <= MaxVal
        /\ op = "pop_front" => ~pop_front(Heap, hd[w]).panic
        /\ LET s == CASE op = "cons_mut" -> cons_mut_steps(Heap, hd[w], nextVal)
                      [] op = "pop_front" -> pop_front_steps(Heap, hd[w])
                      [] op = "cdr_mut" -> cdr_mut_steps(Heap, hd[w])
           IN /\ cells' = s[1].H.cells
              /\ vecs' = s[1].H.vecs
              /\ ext' = s[1].H.ext
              /\ hd' = [hd EXCEPT ![w] = s[1].id]
              /\ steps' = Tail(s)
              /\ ret' = [op |-> op, h |-> w, src |-> w, arg |-> Len(s) - 1,
                         val |-> NoneV, panic |-> FALSE]
        /\ ref' = [ref EXCEPT ![w] = IF op = "cons_mut" THEN <<nextVal>> \o @
                                     ELSE RemoveFirst(@)]
        /\ nextVal' = IF op = "cons_mut" THEN nextVal + 1 ELSE nextVal
    /\ ops' = ops + 1
    /\ UNCHANGED <<G, N, overflow_checks>>

ThreadStep(w) ==
    /\ steps # <<>>
    /\ cells' = steps[1].H.cells
    /\ vecs' = steps[1].H.vecs
    /\ ext' = steps[1].H.ext
    /\ hd' = [hd EXCEPT ![w] = steps[1].id]
    /\ steps' = Tail(steps)
    /\ ret' = [op |-> steps[1].op, h |-> w, src |-> w, arg |-> Len(steps) - 1,
               val |-> NoneV, panic |-> FALSE]
    /\ UNCHANGED <<ref, nextVal, ops, G, N, overflow_checks>>

\* The reader's thread: l.len() and l.car() at any point.
ThreadRead(r) ==
    /\ Running /\ Live(r) /\ Live(Other(r))
    /\ ret' = [op |-> "read", h |-> r, src |-> r, arg |-> len(Heap, hd[r]),
               val |-> car(Heap, hd[r]), panic |-> FALSE]
    /\ UNCHANGED <<cells, vecs, ext, hd, ref, nextVal, ops, G, N,
                   overflow_checks, steps>>

ThreadNext ==
    \/ steps = <<>> /\ Clone("l", "c")
    \/ steps = <<>> /\ Cdr("l", "c")
    \/ ThreadBegin("c")
    \/ ThreadStep("c")
    \/ ThreadRead("l")

ThreadSpec == Init /\ [][ThreadNext]_vars

\* The actions of the property test operations_in_order_match on one list.
PropNext ==
    \/ ConsMut("l")
    \/ Cdr("l", "l")
    \/ Extend("l")
    \/ Reverse("l")
    \/ PushBack("l")
    \/ PopFront("l")

PropSpec == Init /\ [][PropNext]_vars

\* Construction on its own: a vector v (kept in ref) and a list type, then
\* the list is built from v and read with get.
ConstructInit ==
    /\ G \in 1..MaxG
    /\ N \in 1..MaxN
    /\ overflow_checks \in BOOLEAN
    /\ cells = <<>> /\ vecs = <<>> /\ ext = <<>>
    /\ hd = [h \in Handles |-> 0]
    /\ \E k \in 0..MaxVec :
        /\ ref = [h \in Handles |-> IF h = "l" THEN [i \in 1..k |-> i] ELSE <<>>]
        /\ nextVal = k + 1
    /\ ops = 0
    /\ steps = <<>>
    /\ ret = [op |-> "init", h |-> "l", src |-> "l", arg |-> 0, val |-> NoneV,
              panic |-> FALSE]

\* l = v.into_iter().collect()
FromVec(h) ==
    /\ Running /\ ~Live(h)
    /\ InPlace("from_vec", h, 0, from_vec(Heap, ref[h]), ref[h])
    /\ UNCHANGED nextVal

\* l.get(i)
Get(h) ==
    /\ Running /\ Live(h)
    /\ \E i \in 0..(MaxVec + 1) :
        ret' = [op |-> "get", h |-> h, src |-> h, arg |-> i,
                val |-> get(Heap, hd[h], i).val,
                panic |-> get(Heap, hd[h], i).panic]
    /\ UNCHANGED <<cells, vecs, ext, hd, ref, nextVal, ops, G, N,
                   overflow_checks, steps>>

ConstructNext ==
    \/ FromVec("l")
    \/ Get("l")

ConstructSpec == ConstructInit /\ [][ConstructNext]_vars

\* A list built from a vector, for every list type within the bounds, and
\* then changed at its front only.
LayoutNext ==
    \/ FromVec("l")
    \/ ConsMut("l")
    \/ Cons("l", "l")
    \/ Cdr("l", "l")
    \/ CdrMut("l")
    \/ PopFront("l")

LayoutSpec == ConstructInit /\ [][LayoutNext]_vars

----------------------------------------------------------------------------
\* Properties

\* The heap after the step.
HeapNext == [cells |-> cells', vecs |-> vecs', ext |-> ext']

\* The operations that work through &mut self.
Mutators ==
    {"cons_mut", "cdr_mut", "pop_front", "push_back", "append_mut", "extend",
     "reverse", "sort"}

\* C1: whatever sequence of cons_mut, cdr (the empty list when there is
\* none), extend, push_back, pop_front and reverse is applied to the list built
\* from a vector, the list iterates, without panicking, to what the same
\* operations leave of the vector.
C1_OperationsMatchVector ==
    /\ ~ret.panic
    /\ ~IterPanics(Heap, hd["l"])
    /\ iter(Heap, hd["l"]) = ref["l"]

\* C2: an operation through &mut self on one handle leaves the iteration, the
\* len and the car of the other handle as they were, whichever of the two
\* handles is operated on.
C2_ClonePersistence ==
    [][(ret'.op \in Mutators /\ Live(Other(ret'.h))) =>
          LET o == Other(ret'.h)
          IN /\ hd'[o] # 0
             /\ IterPanics(HeapNext, hd'[o]) = IterPanics(Heap, hd[o])
             /\ iter(HeapNext, hd'[o]) = iter(Heap, hd[o])
             /\ len(HeapNext, hd'[o]) = len(Heap, hd[o])
             /\ car(HeapNext, hd'[o]) = car(Heap, hd[o])]_vars

\* C2, its case: c has just been operated on through &mut self while l still
\* shares a cell or a vector with it, and l iterates to what it did.
C2_Witness ==
    /\ ret.op \in Mutators /\ ret.h = "c" /\ ~ret.panic
    /\ Live("l") /\ Live("c")
    /\ \/ strong_count(Heap, hd["l"]) > 1
       \/ elements_strong_count(Heap, hd["l"]) > 1
    /\ iter(Heap, hd["l"]) = ref["l"]
    /\ iter(Heap, hd["c"]) # ref["l"]

\* C3: after every operation, in every bucket of the chain, the cursor is at
\* most the length of the vector, which is at most the bucket's size.
C3_BucketBounds ==
    \A k \in DOMAIN cells :
        /\ ~ULt(Len(vecs[cells[k].elements]), cells[k].index)
        /\ Len(vecs[cells[k].elements]) <= cells[k].size

\* C4: on a non-empty list pop_front returns what car returned just before
\* it, and leaves the list iterating to the previous sequence without its
\* first element.
C4_PopFrontIsCar ==
    [][(ret'.op = "pop_front" /\ iter(Heap, hd[ret'.h]) # <<>>) =>
          /\ ~ret'.panic
          /\ ret'.val = car(Heap, hd[ret'.h])
          /\ ~IterPanics(HeapNext, hd'[ret'.h])
          /\ iter(HeapNext, hd'[ret'.h]) = RemoveFirst(iter(Heap, hd[ret'.h]))]_vars

\* C5: cons(v, xs) is a list one longer than xs whose car is v and which
\* iterates to v followed by the iteration of xs, the same list as cons_mut
\* gives.
C5_ConsPrepends ==
    [][(ret'.op = "cons") =>
          LET h == ret'.h
              xs == hd[ret'.src]
              m == cons_mut(Heap, xs, ret'.arg)
          IN /\ ~ret'.panic
             /\ len(HeapNext, hd'[h]) = len(Heap, xs) + 1
             /\ car(HeapNext, hd'[h]) = ret'.arg
             /\ iter(HeapNext, hd'[h]) = <<ret'.arg>> \o iter(Heap, xs)
             /\ iter(HeapNext, hd'[h]) = iter(m.H, m.id)]_vars

\* C6: cons_mut (push_front) makes the list one longer, makes v its car, and
\* the cdr of the result iterates to what the list iterated to before.
C6_ConsMutPrepends ==
    [][(ret'.op = "cons_mut") =>
          LET h == ret'.h
              r == cdr(HeapNext, hd'[h])
          IN /\ ~ret'.panic
             /\ len(HeapNext, hd'[h]) = len(Heap, hd[h]) + 1
             /\ car(HeapNext, hd'[h]) = ret'.arg
             /\ iter(r.H, r.id) = iter(Heap, hd[h])]_vars

\* C7: car and first return none exactly when the list iterates to nothing,
\* and the first element of the iteration otherwise.
C7_CarIsFirstElement ==
    LET it == iter(Heap, hd["l"])
        c == car(Heap, hd["l"])
        f == first(Heap, hd["l"])
    IN /\ ~f.panic
       /\ (c = NoneV) = (it = <<>>)
       /\ (f.val = NoneV) = (it = <<>>)
       /\ it # <<>> => (c = it[1] /\ f.val = it[1])

\* C8: cdr returns none exactly when the list has at most one element, and
\* otherwise a list iterating to the list without its first element; cdr
\* leaves the list as it was, and a second cdr of it gives the same result.
C8_CdrDropsFirst ==
    LET it == iter(Heap, hd["l"])
        r == cdr(Heap, hd["l"])
        again == cdr(r.H, hd["l"])
    IN /\ (r.id = 0) = (Len(it) <= 1)
       /\ r.id # 0 => iter(r.H, r.id) = Tail(it)
       /\ iter(r.H, hd["l"]) = it
       /\ (again.id = 0) = (r.id = 0)
       /\ iter(again.H, again.id) = iter(r.H, r.id)

\* The elements collected by reading car and then moving to the cdr, until
\* car or cdr returns none; fuel bounds the number of reads.
RECURSIVE CarCdrWalk(_, _, _)
CarCdrWalk(H, id, fuel) ==
    IF fuel = 0 \/ car(H, id) = NoneV THEN <<>>
    ELSE LET r == cdr(H, id)
         IN IF r.id = 0 THEN <<car(H, id)>>
            ELSE <<car(H, id)>> \o CarCdrWalk(r.H, r.id, fuel - 1)

\* C9: walking a list with car and cdr collects exactly the sequence the list
\* iterates to, in len(l) reads of car.
C9_CarCdrTraversal ==
    LET it == iter(Heap, hd["l"])
        walk == CarCdrWalk(Heap, hd["l"], Len(it) + 1)
    IN /\ walk = it
       /\ Len(walk) = len(Heap, hd["l"])

\* C10: get(i) returns the i-th element of the iteration for every i below
\* len(l), also when the cursor of the head bucket has been advanced.
C10_GetIsIth ==
    \A i \in 0..(Len(iter(Heap, hd["l"])) - 1) :
        /\ ~get(Heap, hd["l"], i).panic
        /\ get(Heap, hd["l"], i).val = iter(Heap, hd["l"])[i + 1]

\* C11: get(i) never panics, whatever the index, and returns none for every
\* index that is not below len(l).
C11_GetNeverPanics ==
    \A i \in 0..(MaxVal + 1) :
        /\ ~get(Heap, hd["l"], i).panic
        /\ ~ULt(i, len(Heap, hd["l"])) => get(Heap, hd["l"], i).val = NoneV

\* C12: on a list of length 0 each of car, first, last, cdr, pop_front and
\* cdr_mut (rest_mut) returns none without panicking, and the list still has
\* length 0 afterwards.
C12_EmptyAccessorsReturnNone ==
    len(Heap, hd["l"]) = 0 =>
        LET f == first(Heap, hd["l"])
            d == cdr(Heap, hd["l"])
            p == pop_front(Heap, hd["l"])
            m == cdr_mut(Heap, hd["l"])
        IN /\ car(Heap, hd["l"]) = NoneV
           /\ ~f.panic /\ f.val = NoneV
           /\ last(Heap, hd["l"]) = NoneV
           /\ d.id = 0 /\ len(d.H, hd["l"]) = 0
           /\ ~p.panic /\ p.val = NoneV /\ len(p.H, p.id) = 0
           /\ ~m.panic /\ m.val = 0 /\ len(m.H, m.id) = 0

\* C13: take(k) returns, without panicking, a list that iterates to the first
\* min(k, len(l)) elements of l, and leaves l iterating to what it did.
C13_TakeIsPrefix ==
    \A k \in 0..(MaxVal + 1) :
        LET it == iter(Heap, hd["l"])
            r == take(Heap, hd["l"], k)
        IN /\ ~r.panic
           /\ ~IterPanics(r.H, r.id)
           /\ iter(r.H, r.id) = SubSeq(it, 1, Min(k, Len(it)))
           /\ iter(r.H, hd["l"]) = it

\* C14: tail(k) returns the list of the elements of l after the first k when
\* k <= len(l) (of length len(l) - k) and none when k > len(l), and leaves l
\* iterating to what it did.
C14_TailIsSuffix ==
    \A k \in 0..(MaxVal + 1) :
        LET it == iter(Heap, hd["l"])
            r == tail(Heap, hd["l"], k)
        IN /\ ~r.panic
           /\ IF k <= Len(it)
              THEN /\ r.id # 0
                   /\ iter(r.H, r.id) = SubSeq(it, k + 1, Len(it))
                   /\ len(r.H, r.id) = len(Heap, hd["l"]) - k
              ELSE r.id = 0
           /\ iter(r.H, hd["l"]) = it

\* C15: append(a, b) iterates to the iteration of a followed by that of b and
\* has length len(a) + len(b), and a handle that shares the buckets of a or b
\* still iterates to what it did; here a and b are clones of l or a list
\* freshly built from a vector, and l is the handle that shares.
C15_AppendConcatenates ==
    LET it == iter(Heap, hd["l"])
        n == len(Heap, hd["l"])
        x == nextVal
        s == append(P_clone(P_clone(Heap, hd["l"]), hd["l"]), hd["l"], hd["l"])
        fv == from_vec(P_clone(Heap, hd["l"]), <<x>>)
        e == append(fv.H, hd["l"], fv.id)
        p == append(fv.H, fv.id, hd["l"])
    IN /\ ~IterPanics(s.H, s.id) /\ iter(s.H, s.id) = it \o it
       /\ len(s.H, s.id) = n + n /\ iter(s.H, hd["l"]) = it
       /\ ~IterPanics(e.H, e.id) /\ iter(e.H, e.id) = Append(it, x)
       /\ len(e.H, e.id) = n + 1 /\ iter(e.H, hd["l"]) = it
       /\ ~IterPanics(p.H, p.id) /\ iter(p.H, p.id) = <<x>> \o it
       /\ len(p.H, p.id) = 1 + n /\ iter(p.H, hd["l"]) = it

\* C16: append is associative up to what the lists iterate to: for a, b, c
\* each a clone of l or a list freshly built from a one-element vector,
\* append(append(a, b), c) and append(a, append(b, c)) iterate to the same
\* sequence and have the same length.
C16_AppendAssociative ==
    LET l == hd["l"]
        H0 == P_clone(P_clone(P_clone(Heap, l), l), l)
        fx == from_vec(H0, <<nextVal>>)
        fy == from_vec(fx.H, <<nextVal + 1>>)
        H == fy.H
        x == fx.id
        y == fy.id
        Assoc(a, b, c) ==
            LET ab == append(H, a, b)
                left == append(ab.H, ab.id, c)
                bc == append(H, b, c)
                right == append(bc.H, a, bc.id)
            IN /\ IterPanics(left.H, left.id) = IterPanics(right.H, right.id)
               /\ iter(left.H, left.id) = iter(right.H, right.id)
               /\ len(left.H, left.id) = len(right.H, right.id)
    IN /\ Assoc(x, l, y)
       /\ Assoc(l, x, l)
       /\ Assoc(x, y, l)
       /\ Assoc(l, l, l)

\* C17: reverse of a list iterates to the reverse of what the list iterates
\* to and has the same length, reversing twice gives back the sequence, and a
\* clone taken before reversing still iterates to the original order.
C17_ReverseInvolution ==
    LET it == iter(Heap, hd["l"])
        r == reverse(P_clone(Heap, hd["l"]), hd["l"])
        rr == reverse(r.H, r.id)
    IN /\ IterPanics(r.H, r.id) = IterPanics(Heap, hd["l"])
       /\ iter(r.H, r.id) = Rev(it)
       /\ len(r.H, r.id) = len(Heap, hd["l"])
       /\ iter(r.H, hd["l"]) = it
       /\ IterPanics(rr.H, rr.id) = IterPanics(Heap, hd["l"])
       /\ iter(rr.H, rr.id) = it
       /\ len(rr.H, rr.id) = len(Heap, hd["l"])
       /\ iter(rr.H, hd["l"]) = it

\* C17, its case: l has just been reversed, is a chain of several buckets
\* holding at least three elements, and iterates to the reversed reference
\* vector, which differs from the vector before the reversal.
C17_Witness ==
    /\ ret.op = "reverse" /\ ~ret.panic
    /\ Len(node_iter(Heap, hd["l"])) > 1
    /\ Len(iter(Heap, hd["l"])) > 2
    /\ iter(Heap, hd["l"]) = ref["l"]
    /\ ref["l"] # Rev(ref["l"])

\* C18: last returns the final element of what the list iterates to, and none
\* exactly when the list is empty.
C18_LastIsFinalElement ==
    LET it == iter(Heap, hd["l"])
    IN last(Heap, hd["l"]) = IF it = <<>> THEN NoneV ELSE it[Len(it)]

\* C19: is_empty() is true exactly when len() is 0, and len(), the sum of the
\* cursors over the chain, is the number of elements the iteration yields.
C19_IsEmptyIffLenZero ==
    /\ is_empty(Heap, hd["l"]) = (len(Heap, hd["l"]) = 0)
    /\ ~IterPanics(Heap, hd["l"])
    /\ len(Heap, hd["l"]) = Len(iter(Heap, hd["l"]))

\* C20: for every vector v, bucket capacity N and growth factor G, the list
\* built from v iterates to exactly v, has len |v|, and get(i) returns v[i]
\* for every i below |v|; the value a get step returns is the one read here.
C20_ConstructionRoundTrip ==
    Live("l") =>
        LET v == ref["l"]
        IN /\ ~IterPanics(Heap, hd["l"])
           /\ iter(Heap, hd["l"]) = v
           /\ len(Heap, hd["l"]) = Len(v)
           /\ \A i \in 0..(Len(v) - 1) :
                /\ ~get(Heap, hd["l"], i).panic
                /\ get(Heap, hd["l"], i).val = v[i + 1]
           /\ (ret.op = "get" /\ ret.arg < Len(v)) =>
                (~ret.panic /\ ret.val = v[ret.arg + 1])

\* C20, its case: a list built from a vector into at least three buckets of
\* growing capacity has been read by get beyond its head bucket.
C20_Witness ==
    /\ ret.op = "get" /\ ~ret.panic
    /\ Len(node_iter(Heap, hd["l"])) >= 3
    /\ cells[hd["l"]].size > N
    /\ cells[hd["l"]].index <= ret.arg /\ ret.arg < Len(ref["l"])
    /\ ret.val = ref["l"][ret.arg + 1]

\* C21: after sort (the natural order) and after sort_by (here a comparator
\* on x \div 2, under which distinct values compare equal) the list iterates
\* to a nondecreasing sequence that is a permutation of the previous one and
\* keeps values that compare equal in their previous order; a handle on the
\* list before the sort still iterates to what it did.
C21_SortIsStablePermutation ==
    LET it == iter(Heap, hd["l"])
        Count(s, x) == Cardinality({i \in 1..Len(s) : s[i] = x})
        Sorted(out, d) ==
            /\ \A i \in 1..(Len(out) - 1) : out[i] \div d <= out[i + 1] \div d
            /\ Len(out) = Len(it)
            /\ \A i \in 1..Len(it) : Count(out, it[i]) = Count(it, it[i])
            /\ \A i \in 1..Len(it), j \in 1..Len(it) :
                (i < j /\ it[i] \div d = it[j] \div d) =>
                    \E a \in 1..Len(out), b \in 1..Len(out) :
                        a < b /\ out[a] = it[i] /\ out[b] = it[j]
        n == sort(P_clone(Heap, hd["l"]), hd["l"])
        k == sort_by(P_clone(Heap, hd["l"]), hd["l"], 2)
    IN /\ ~IterPanics(n.H, n.id) /\ Sorted(iter(n.H, n.id), 1)
       /\ iter(n.H, hd["l"]) = it
       /\ ~IterPanics(k.H, k.id) /\ Sorted(iter(k.H, k.id), 2)
       /\ iter(k.H, hd["l"]) = it

\* C21, its case: l holds at least three values in several buckets with 3
\* before 2; sort puts 2 before 3, and sort_by on x \div 2, under which the
\* two compare equal, keeps 3 before 2.
C21_Witness ==
    LET it == iter(Heap, hd["l"])
        n == sort(P_clone(Heap, hd["l"]), hd["l"])
        k == sort_by(P_clone(Heap, hd["l"]), hd["l"], 2)
        Before(s, x, y) ==
            \E i \in 1..Len(s), j \in 1..Len(s) : i < j /\ s[i] = x /\ s[j] = y
    IN /\ Len(it) >= 3
       /\ Len(node_iter(Heap, hd["l"])) > 1
       /\ Before(it, 3, 2)
       /\ Before(iter(n.H, n.id), 2, 3)
       /\ Before(iter(k.H, k.id), 3, 2)
       /\ iter(k.H, k.id) # it

\* C22: the draining iterator yields the elements of a bucket only if the
\* bucket's node and its vector both have strong count 1 when the bucket is
\* consumed, and once a bucket has failed that test no element of that bucket
\* or of any later bucket is yielded.
C22_DrainStopsAtSharedBucket ==
    [][(ret'.op = "drain") =>
          LET d == draining_iterator(Heap, hd[ret'.h])
          IN /\ ref'[ret'.h] = d.out
             /\ \A k \in 1..Len(d.log) :
                    d.log[k].out # <<>> => d.log[k].unique
             /\ \A k \in 1..Len(d.log) :
                    ~d.log[k].unique =>
                        \A j \in k..Len(d.log) : d.log[j].out = <<>>]_vars

\* C23: when every bucket and every vector of the chain is held by the
\* drained handle alone, the draining iterator yields exactly what the list
\* iterates to.
C23_DrainOwnedYieldsAll ==
    [][(/\ ret'.op = "drain"
        /\ \A k \in 1..Len(node_iter(Heap, hd[ret'.h])) :
            /\ strong_count(Heap, node_iter(Heap, hd[ret'.h])[k]) = 1
            /\ elements_strong_count(Heap, node_iter(Heap, hd[ret'.h])[k]) = 1) =>
          ref'[ret'.h] = iter(Heap, hd[ret'.h])]_vars

\* C23, its case: l has been drained and at least three elements, the
\* reference vector in order, were collected.
C23_Witness ==
    /\ ret.op = "drain" /\ ret.h = "l" /\ ~ret.panic
    /\ Len(ref["l"]) >= 3
    /\ \E i \in 1..(Len(ref["l"]) - 1) : ref["l"][i] > ref["l"][i + 1]
    /\ cells = <<>>


Reach(H, id) == {node_iter(H, id)[i] : i \in 1..Len(node_iter(H, id))}

\* C25: the strong count of every node, a head in particular, is the number
\* of live handles plus the number of next links pointing at it, and nothing
\* is allocated that no handle reaches; and when l.append_mut(c.clone()) is
\* followed by a clone of l, the drop of that clone and the drop of c, the
\* head of l has strong count 1, the heap holds the nodes of l and nothing
\* else, and dropping l frees everything.
C25_NoLeaks ==
    /\ \A k \in DOMAIN cells :
        strong_count(Heap, k) =
            Cardinality({h \in Handles : hd[h] = k})
            + Cardinality({c \in DOMAIN cells : cells[c].next = k})
    /\ DOMAIN cells = Reach(Heap, hd["l"]) \cup Reach(Heap, hd["c"])
    /\ (Live("l") /\ Live("c")) =>
        LET A == append(P_clone(Heap, hd["c"]), hd["l"], hd["c"])
            B == P_clone(A.H, A.id)
            C == P_drop(B, A.id)
            D == P_drop(C, hd["c"])
            E == P_drop(D, A.id)
        IN /\ strong_count(B, A.id) = strong_count(A.H, A.id) + 1
           /\ strong_count(D, A.id) = 1
           /\ DOMAIN D.cells = Reach(D, A.id)
           /\ \A k \in DOMAIN D.cells : D.ext[k] = IF k = A.id THEN 1 ELSE 0
           /\ \A v \in DOMAIN D.vecs : \E k \in DOMAIN D.cells : D.cells[k].elements = v
           /\ E.cells = <<>> /\ E.vecs = <<>>

\* l.append_mut(c.clone()) with c a clone of l, then c dropped: l is two
\* buckets and its head has strong count 1.
C25_Witness ==
    /\ ret.op = "drop" /\ ~Live("c") /\ Live("l")
    /\ ref["l"] = <<1, 2, 1, 2>>
    /\ Len(node_iter(Heap, hd["l"])) >= 2
    /\ strong_count(Heap, hd["l"]) = 1


\* C26: l[i] returns the i-th element of the iteration without panicking for
\* every i below len(l), and panics for every i from len(l) on.
C26_IndexOperator ==
    \A i \in 0..(MaxVal + 1) :
        IF i < Len(iter(Heap, hd["l"]))
        THEN /\ ~Index(Heap, hd["l"], i).panic
             /\ Index(Heap, hd["l"], i).val = iter(Heap, hd["l"])[i + 1]
        ELSE Index(Heap, hd["l"], i).panic


RECURSIVE Pow(_, _)
Pow(b, e) == IF e = 0 THEN 1 ELSE b * Pow(b, e - 1)

C28_InnerBucketsNonEmpty ==
    \A k \in DOMAIN cells : cells[k].next # 0 => ULt(0, cells[k].index)


\* N + N*G + ... + N*G^(k-1)
RECURSIVE GeoSum(_)
GeoSum(k) == IF k = 0 THEN 0 ELSE GeoSum(k - 1) + N * Pow(G, k - 1)

\* C29: the list built from a non-empty vector v has k buckets, k the least
\* number with N + N*G + ... + N*G^(k-1) >= |v|; from the tail the sizes are
\* N, N*G, ..., N*G^(k-1); every bucket but the head is full, the head holds
\* the remaining |v| - (sum of the other sizes) elements, between 1 and its
\* size; every cursor is the length of its vector.  From the empty vector
\* the list is one empty bucket.  With N = 2 and G = 2, twenty elements give
\* buckets of 6, 8, 4, 2 elements from the head.
C29_ConstructionLayout ==
    Live("l") =>
        LET v == ref["l"]
            nodes == node_iter(Heap, hd["l"])
            k == Len(nodes)
            twenty == from_vec([cells |-> <<>>, vecs |-> <<>>, ext |-> <<>>],
                               [i \in 1..20 |-> i])
            counts == [i \in 1..Len(node_iter(twenty.H, twenty.id)) |->
                        Len(VecOf(twenty.H, node_iter(twenty.H, twenty.id)[i]))]
        IN /\ IF v = <<>>
              THEN /\ k = 1
                   /\ VecOf(Heap, hd["l"]) = <<>>
                   /\ cells[hd["l"]].index = 0
              ELSE /\ GeoSum(k) >= Len(v)
                   /\ \A j \in 0..(k - 1) : GeoSum(j) < Len(v)
                   /\ \A i \in 1..k : cells[nodes[i]].size = N * Pow(G, k - i)
                   /\ \A i \in 2..k :
                        Len(VecOf(Heap, nodes[i])) = cells[nodes[i]].size
                   /\ Len(VecOf(Heap, hd["l"])) = Len(v) - GeoSum(k - 1)
                   /\ Len(VecOf(Heap, hd["l"])) \in 1..cells[hd["l"]].size
           /\ \A i \in 1..k : cells[nodes[i]].index = Len(VecOf(Heap, nodes[i]))
           /\ (N = VListN /\ G = 2) => counts = <<6, 8, 4, 2>>

\* Seven elements with N = 1 and G = 2: three buckets of sizes 4, 2, 1, all
\* of them full.
C29_Witness ==
    /\ Live("l") /\ ret.op = "from_vec" /\ N = 1 /\ G = 2 /\ Len(ref["l"]) = 7
    /\ Len(node_iter(Heap, hd["l"])) = 3
    /\ cells[hd["l"]].size = 4 /\ cells[hd["l"]].index = 4


\* C30: on a head bucket with cursor above 1, cdr leaves the source as it
\* was and returns a fresh node with the same elements vector (nothing is
\* copied, the vector's strong count is one more), the cursor less 1, the
\* same next and the same size, and a second cdr on the same list returns
\* another node with the same elements vector and cursor; with cursor 1 it
\* returns the next node itself, its strong count one more, and allocates
\* nothing.
C30_CdrSharesVector ==
    \A h \in Handles : Live(h) =>
        LET c == cells[hd[h]]
            r == cdr(Heap, hd[h])
            r2 == cdr(r.H, hd[h])
        IN /\ ~r.panic
           /\ r.H.cells[hd[h]] = c
           /\ r.H.vecs = vecs
           /\ ULt(1, c.index) =>
                /\ r.id \notin DOMAIN cells
                /\ r.H.cells[r.id] = [index |-> c.index - 1,
                                      elements |-> c.elements,
                                      next |-> c.next, size |-> c.size]
                /\ elements_strong_count(r.H, hd[h])
                     = elements_strong_count(Heap, hd[h]) + 1
                /\ strong_count(r.H, r.id) = 1
                /\ r2.id # r.id /\ r2.id \notin DOMAIN cells
                /\ r2.H.cells[r2.id].elements = r.H.cells[r.id].elements
                /\ r2.H.cells[r2.id].index = r.H.cells[r.id].index
                /\ r2.H.vecs = vecs
           /\ c.index = 1 =>
                /\ r.id = c.next
                /\ DOMAIN r.H.cells = DOMAIN cells
                /\ c.next # 0 =>
                     strong_count(r.H, c.next) = strong_count(Heap, c.next) + 1

\* c = l.cdr() on a head bucket with cursor 2: c is a node of its own on
\* the vector of l, one slot further along.
C30_Witness ==
    /\ ret.op = "cdr" /\ ret.h = "c" /\ Live("c") /\ Live("l")
    /\ hd["c"] # hd["l"]
    /\ cells[hd["l"]].index = 2 /\ cells[hd["c"]].index = 1
    /\ cells[hd["c"]].elements = cells[hd["l"]].elements
    /\ cells[hd["c"]].next = cells[hd["l"]].next
    /\ cells[hd["l"]].next # 0
    /\ elements_strong_count(Heap, hd["l"]) = 2


\* C31: cdr_mut returns none exactly when l has at most one element; when it
\* returns some, l has lost its first element and nothing else, its length
\* is one less and car is some; when it returns none, l is empty afterwards.
C31_CdrMutDropsFirst ==
    LET it == iter(Heap, hd["l"])
        r == cdr_mut(Heap, hd["l"])
    IN ~IterPanics(Heap, hd["l"]) =>
        /\ ~r.panic
        /\ r.val = 0 <=> Len(it) <= 1
        /\ r.val = 1 =>
            /\ ~IterPanics(r.H, r.id)
            /\ iter(r.H, r.id) = Tail(it)
            /\ len(r.H, r.id) = len(Heap, hd["l"]) - 1
            /\ car(r.H, r.id) # NoneV
        /\ r.val = 0 =>
            /\ iter(r.H, r.id) = <<>>
            /\ len(r.H, r.id) = 0


\* What cons_mut(v) on l does when it pushes into the head bucket, and when
\* it allocates a new head.
ConsMutInPlace(r) ==
    /\ Len(node_iter(r.H, r.id)) = Len(node_iter(Heap, hd["l"]))
    /\ r.H.cells[r.id].index = cells[hd["l"]].index + 1
    /\ r.H.cells[r.id].next = cells[hd["l"]].next
    /\ r.H.cells[r.id].size = cells[hd["l"]].size

ConsMutNewHead(r, v) ==
    /\ Len(node_iter(r.H, r.id)) = Len(node_iter(Heap, hd["l"])) + 1
    /\ r.id \notin DOMAIN cells
    /\ r.H.cells[r.id].index = 1
    /\ VecOf(r.H, r.id) = <<v>>
    /\ r.H.cells[r.id].size = cells[hd["l"]].size * G
    /\ iter(r.H, r.H.cells[r.id].next) = iter(Heap, hd["l"])
    /\ cells[hd["l"]].index = Len(VecOf(Heap, hd["l"])) =>
        /\ r.H.cells[r.id].next = hd["l"]
        /\ \A k \in DOMAIN cells : r.H.cells[k] = cells[k]
        /\ \A k \in DOMAIN vecs : r.H.vecs[k] = vecs[k]

\* C32 as stated: cons_mut pushes into the head bucket exactly when the
\* length of the head's vector is below its size, and otherwise allocates a
\* new head with cursor 1, elements [v], next the old head and size * G.
C32_ConsMutByStoredLength ==
    LET r == cons_mut(Heap, hd["l"], nextVal)
    IN IF Len(VecOf(Heap, hd["l"])) < cells[hd["l"]].size
       THEN ConsMutInPlace(r)
       ELSE ConsMutNewHead(r, nextVal)

\* C32 amended: cons_mut pushes into the head bucket exactly when the number
\* of slots the cursor leaves visible (the length of the vector once it is
\* truncated to the cursor) is below the bucket's size, and otherwise
\* allocates a new head with cursor 1, elements [v], size * G and the old
\* list as its next.
C32_ConsMutByLiveLength ==
    LET r == cons_mut(Heap, hd["l"], nextVal)
    IN IF UMin(cells[hd["l"]].index, Len(VecOf(Heap, hd["l"])))
            < cells[hd["l"]].size
       THEN ConsMutInPlace(r)
       ELSE ConsMutNewHead(r, nextVal)

\* A head bucket whose vector is as long as its size while the cursor hides
\* a slot: cons_mut cuts the hidden slot off and pushes in place.
C32_Witness ==
    /\ Len(VecOf(Heap, hd["l"])) = cells[hd["l"]].size
    /\ cells[hd["l"]].index = 1
    /\ cells[hd["l"]].next # 0
    /\ cons_mut(Heap, hd["l"], nextVal).id = hd["l"]
    /\ Len(VecOf(cons_mut(Heap, hd["l"], nextVal).H, hd["l"])) = 2


\* C33: push_front(v) followed by pop_front returns v and leaves l with the
\* iteration and the number of buckets it had before the push.
C33_PushPopRoundTrip ==
    LET a == cons_mut(Heap, hd["l"], nextVal)
        b == pop_front(a.H, a.id)
    IN ~IterPanics(Heap, hd["l"]) =>
        /\ ~b.panic
        /\ b.val = nextVal
        /\ ~IterPanics(b.H, b.id)
        /\ iter(b.H, b.id) = iter(Heap, hd["l"])
        /\ Len(node_iter(b.H, b.id)) = Len(node_iter(Heap, hd["l"]))


\* C34: when a one-bucket list b is appended to a one-bucket list l, the two
\* buckets are merged into the left one exactly when cursor_left +
\* cursor_right is at most the right bucket's size; the merged bucket has
\* cursor = elements.length = cursor_left + cursor_right and the right
\* bucket's next; otherwise the two buckets stay linked, left before right.
C34_MergeWhenLiveLengthFits ==
    (cells[hd["l"]].next = 0 /\ ~IterPanics(Heap, hd["l"])) =>
        \A k \in 1..MaxExt :
            LET b == from_vec(Heap, Fresh(k))
                r == append(b.H, hd["l"], b.id)
                left == cells[hd["l"]].index
                right == b.H.cells[b.id].index
            IN b.H.cells[b.id].next = 0 =>
                IF left + right <= b.H.cells[b.id].size
                THEN /\ Len(node_iter(r.H, r.id)) = 1
                     /\ r.H.cells[r.id].index = left + right
                     /\ Len(VecOf(r.H, r.id)) = left + right
                     /\ r.H.cells[r.id].next = 0
                ELSE /\ Len(node_iter(r.H, r.id)) = 2
                     /\ r.H.cells[r.id].index = left
                     /\ r.H.cells[r.H.cells[r.id].next].index = right


\* The number of leading nodes of the chain, from position i on, that
\* nothing but the chain itself holds.
RECURSIVE UnheldRun(_, _, _)
UnheldRun(H, nodes, i) ==
    IF i > Len(nodes) \/ strong_count(H, nodes[i]) # 1 THEN i - 1
    ELSE UnheldRun(H, nodes, i + 1)

\* C35: dropping a handle frees exactly the leading buckets of its chain
\* that have no other holder, with the vectors only they hold; the first
\* bucket that is held elsewhere loses exactly one strong count, and it and
\* every other bucket left keep their cursor, elements, next and count, so
\* the other handle iterates to what it did before.
C35_DropFreesUnheldRun ==
    \A h \in Handles : Live(h) =>
        LET nodes == node_iter(Heap, hd[h])
            j == UnheldRun(Heap, nodes, 1)
            freed == {nodes[i] : i \in 1..j}
            D == P_drop(Heap, hd[h])
        IN /\ DOMAIN D.cells = (DOMAIN cells) \ freed
           /\ \A k \in DOMAIN D.cells :
                /\ D.cells[k] = cells[k]
                /\ D.vecs[cells[k].elements] = vecs[cells[k].elements]
                /\ strong_count(D, k) =
                     IF j < Len(nodes) /\ k = nodes[j + 1]
                     THEN strong_count(Heap, k) - 1
                     ELSE strong_count(Heap, k)
           /\ DOMAIN D.vecs = {cells[k].elements : k \in DOMAIN D.cells}
           /\ Live(Other(h)) =>
                iter(D, hd[Other(h)]) = iter(Heap, hd[Other(h)])

\* c has two buckets of its own in front of a bucket it shares with l:
\* dropping c frees the two and stops at the third.
C35_Witness ==
    /\ Live("c") /\ Live("l")
    /\ Len(node_iter(Heap, hd["c"])) >= 3
    /\ UnheldRun(Heap, node_iter(Heap, hd["c"]), 1) = 2
    /\ node_iter(Heap, hd["c"])[3] = hd["l"]
    /\ Cardinality(DOMAIN P_drop(Heap, hd["c"]).cells) = Cardinality(DOMAIN cells) - 2


\* Following next from node k ends at a node without next in at most n steps.
RECURSIVE EndsWithin(_, _, _)
EndsWithin(H, k, n) ==
    IF k = 0 THEN TRUE
    ELSE IF n = 0 \/ k \notin DOMAIN H.cells THEN FALSE
    ELSE EndsWithin(H, H.cells[k].next, n - 1)

Acyclic(H) ==
    \A k \in DOMAIN H.cells : EndsWithin(H, k, Cardinality(DOMAIN H.cells))

\* C36: the next links over all allocated buckets are acyclic, in the heap
\* as it is and in the heap as reverse, append (of l to itself and of a new
\* list to l), take, cons_mut, pop_front and cdr_mut leave it.
C36_NextLinksAcyclic ==
    /\ Acyclic(Heap)
    /\ Acyclic(reverse(Heap, hd["l"]).H)
    /\ Acyclic(append(P_clone(P_clone(Heap, hd["l"]), hd["l"]), hd["l"], hd["l"]).H)
    /\ \A k \in 1..MaxExt :
        LET b == from_vec(Heap, Fresh(k))
        IN /\ Acyclic(append(b.H, hd["l"], b.id).H)
           /\ Acyclic(append(b.H, b.id, hd["l"]).H)
    /\ \A k \in 0..MaxArg : Acyclic(take(Heap, hd["l"], k).H)
    /\ Acyclic(cons_mut(Heap, hd["l"], nextVal).H)
    /\ Acyclic(pop_front(Heap, hd["l"]).H)
    /\ Acyclic(cdr_mut(Heap, hd["l"]).H)

\* extend has merged the bucket of the new element into the head bucket,
\* swapping the next links of the two.
C36_Witness ==
    /\ ret.op = "extend" /\ ret.arg = 1
    /\ Len(node_iter(Heap, hd["l"])) = 1
    /\ Len(ref["l"]) = 2 /\ cells[hd["l"]].index = 2
    /\ Acyclic(Heap)


\* No bucket and no vector that has a strong count above 1 is changed by the
\* operation that leaves r.
SharedUntouched(r) ==
    /\ \A k \in DOMAIN cells :
        strong_count(Heap, k) > 1 =>
            k \in DOMAIN r.H.cells /\ r.H.cells[k] = cells[k]
    /\ \A k \in DOMAIN cells :
        elements_strong_count(Heap, k) > 1 =>
            /\ cells[k].elements \in DOMAIN r.H.vecs
            /\ r.H.vecs[cells[k].elements] = vecs[cells[k].elements]

\* The operation that leaves r has kept the head node of h and its vector,
\* allocated nothing, and left the head's strong count at 1.
KeepsHead(h, r) ==
    /\ r.id = hd[h]
    /\ r.H.cells[r.id].elements = cells[hd[h]].elements
    /\ DOMAIN r.H.cells = DOMAIN cells
    /\ DOMAIN r.H.vecs = DOMAIN vecs
    /\ strong_count(r.H, r.id) = 1

\* The operation that leaves r has worked on a copy of whatever was shared:
\* a new node when the head node was, a new vector when the vector was or
\* the node was copied (writesVec: the operation writes to the vector).
WorksOnCopy(h, r, writesVec) ==
    LET nodeShared == strong_count(Heap, hd[h]) > 1
        vecShared == nodeShared \/ elements_strong_count(Heap, hd[h]) > 1
    IN /\ nodeShared => r.id \notin DOMAIN cells
       /\ ~nodeShared => r.id = hd[h]
       /\ (vecShared /\ writesVec) =>
            r.H.cells[r.id].elements \notin DOMAIN vecs
       /\ ~(vecShared /\ writesVec) =>
            r.H.cells[r.id].elements = cells[hd[h]].elements
       /\ strong_count(r.H, r.id) = 1

Exclusive(h) ==
    strong_count(Heap, hd[h]) = 1 /\ elements_strong_count(Heap, hd[h]) = 1

HasRoom(h) ==
    UMin(cells[hd[h]].index, Len(VecOf(Heap, hd[h]))) < cells[hd[h]].size

\* C37: with the head node and its vector at strong count 1, cons_mut with
\* room in the head bucket, and pop_front and cdr_mut with cursor above 1,
\* keep the head node and its vector, allocate nothing and leave the head's
\* strong count at 1; with either count above 1 the write goes to a new copy
\* (of the node when the node is shared, of the vector when the operation
\* writes to a shared vector) and nothing shared is changed.
C37_InPlaceOrCopy ==
    \A h \in Handles : Live(h) =>
        LET a == cons_mut(Heap, hd[h], nextVal)
            p == pop_front(Heap, hd[h])
            m == cdr_mut(Heap, hd[h])
        IN /\ HasRoom(h) =>
                /\ SharedUntouched(a)
                /\ IF Exclusive(h) THEN KeepsHead(h, a)
                   ELSE WorksOnCopy(h, a, TRUE)
           /\ ULt(1, cells[hd[h]].index) =>
                /\ ~p.panic
                /\ SharedUntouched(p)
                /\ IF Exclusive(h) THEN KeepsHead(h, p)
                   ELSE WorksOnCopy(h, p, TRUE)
           /\ ULt(1, cells[hd[h]].index) =>
                /\ SharedUntouched(m)
                /\ IF Exclusive(h) THEN KeepsHead(h, m)
                   ELSE WorksOnCopy(h, m, FALSE)

\* l alone holds its head bucket (cursor 2, room left) in front of a bucket
\* that c holds too: the three operations work in place on l and on a copy
\* on c.
C37_Witness ==
    /\ Live("l") /\ Live("c")
    /\ Exclusive("l") /\ HasRoom("l") /\ cells[hd["l"]].index = 2
    /\ cells[hd["l"]].next = hd["c"]
    /\ cells[hd["c"]].index = 2
    /\ KeepsHead("l", cons_mut(Heap, hd["l"], nextVal))
    /\ KeepsHead("l", pop_front(Heap, hd["l"]))
    /\ KeepsHead("l", cdr_mut(Heap, hd["l"]))
    /\ pop_front(Heap, hd["c"]).id \notin DOMAIN cells
    /\ cdr_mut(Heap, hd["c"]).id \notin DOMAIN cells


\* C38: car and first return the same value on every reachable list, and
\* both return none exactly when len is 0.
C38_CarIsFirst ==
    LET f == first(Heap, hd["l"])
        c == car(Heap, hd["l"])
    IN /\ ~f.panic
       /\ c = f.val
       /\ (c = NoneV) <=> (len(Heap, hd["l"]) = 0)


\* The walk that get, take and tail share: the counter k is compared with the
\* cursor of each bucket and, when it is not below it, the length of the
\* bucket's vector is subtracted from it. TRUE when every subtraction that
\* executes finds the counter at least that length.
RECURSIVE CounterFits(_, _, _)
CounterFits(H, cur, k) ==
    IF cur = 0 THEN TRUE
    ELSE LET node == H.cells[cur]
             e == H.vecs[node.elements]
         IN IF ULt(k, node.index) THEN TRUE
            ELSE /\ ~ULt(k, Len(e))
                 /\ CounterFits(H, node.next, k - Len(e))

\* get: `index -= elements.len()` in the head and in the loop.
get_fits(H, id, index) == CounterFits(H, id, index)

\* take: returns before the loop for count 0 and for a count above the
\* cursor of a single bucket.
take_fits(H, id, count) ==
    \/ count = 0
    \/ ULt(H.cells[id].index, count) /\ H.cells[id].next = 0
    \/ CounterFits(H, id, count)

\* tail: returns before the loop for len 0.
tail_fits(H, id, n) == n = 0 \/ CounterFits(H, id, n)

\* pop_front: `cell.index -= 1` executes when the vector gave an element.
pop_front_fits(H, id) ==
    Len(VecOf(H, id)) > 0 => ~ULt(H.cells[id].index, 1)

\* C39: on every reachable list the running counter of take, tail and get is
\* at least the bucket's vector length whenever that length is subtracted
\* from it, and the cursor is at least 1 whenever pop_front decrements it.
C39_CountersNeverUnderflow ==
    /\ \A k \in 0..MaxLen :
        /\ get_fits(Heap, hd["l"], k)
        /\ take_fits(Heap, hd["l"], k)
        /\ tail_fits(Heap, hd["l"], k)
    /\ pop_front_fits(Heap, hd["l"])

----------------------------------------------------------------------------
\* The handles account for every count in ext, and nothing else is allocated.
ExtConsistent ==
    /\ DOMAIN ext = DOMAIN cells
    /\ \A k \in DOMAIN cells :
        /\ ext[k] = Cardinality({h \in Handles : hd[h] = k})
        /\ strong_count(Heap, k) > 0
        /\ cells[k].elements \in DOMAIN vecs
        /\ cells[k].next = 0 \/ cells[k].next \in DOMAIN cells
    /\ \A v \in DOMAIN vecs : \E k \in DOMAIN cells : cells[k].elements = v

====
